---- MODULE Spec2Model ----
(***************************************************************************)
(* CodeAtlas backend (src/app.py): the repository-analysis pipeline, the   *)
(* trending-repository proxy and the idea board.                           *)
(*                                                                         *)
(* Text is a sequence of tokens.  A token is either a piece of text        *)
(* without "/" (a name, a blank) or one of the two URL prefixes, which     *)
(* start with a piece without "/" ("https:", "http:") and end with "/".    *)
(* Request bodies are JSON objects whose fields are absent (None) or text. *)
(* Each worker handles one request at a time; workers interleave at the    *)
(* outbound calls and at the store's commit.                               *)
(***************************************************************************)
EXTENDS Integers, Sequences, FiniteSets, TLC

VARIABLES
    rows,       \* table post, in insertion order
    comments,   \* table comment
    session,    \* per worker: the rows added to db.session and not yet flushed
    pc,         \* per worker: where its handler stands
    req,        \* per worker: the body or query of the request being handled
    loc,        \* per worker: the locals of analyze_repo_route
    calls,      \* per worker: the outbound calls attempted for the request, in order
    resp,       \* per worker: the response returned
    url,        \* argument of parse_github_url (SpecParse)
    parsed      \* its result, <<>> before the call (SpecParse)

vars == <<rows, comments, session, pc, req, loc, calls, resp, url, parsed>>

\* ------------------------------------------------------------------ bounds
MaxLen == 5          \* longest URL, in tokens, given to parse_github_url
MaxPosts == 3        \* createPost is taken while the table has fewer rows (SpecBoard)
MaxTick == 2         \* utcnow reads 0, 30, ..., 30 * MaxTick seconds (SpecBoard)
MaxTree == 2         \* entries of a git tree reply
MaxItems == 13       \* items of a search reply (SpecTrending)
FullPosts == 2       \* as MaxPosts (Spec)
FullTick == 0        \* as MaxTick (Spec)
FullItems == 1       \* as MaxItems (Spec)

\* ------------------------------------------------------- program constants
PathCap == 200       \* files[:200]
PerPage == 12        \* per_page=12

Workers == {"w1", "w2"}

\* ------------------------------------------------------------------ text
None == <<"None">>   \* Python's None (no token is "None")
HTTPS == "https://github.com/"
HTTP == "http://github.com/"
SLASH == "/"
BLANK == " "
Tok == {HTTPS, HTTP, SLASH, "a", "b", BLANK}

\* All texts of at most n tokens.
Strings(n) == UNION {[1..k -> Tok] : k \in 0..n}

\* Python truthiness of a value that is None or text: `not x`.
Falsy(x) == x = None \/ x = <<>>

\* The token holds a "/".
HasSlash(t) == t \in {HTTPS, HTTP, SLASH}

\* The text of a token before its first "/".
TokHead(t) == IF t = HTTPS THEN <<"https:">> ELSE IF t = HTTP THEN <<"http:">> ELSE <<>>

\* Index of the first token at or after i that holds a "/" (Len + 1 if none).
RECURSIVE SlashFrom(_, _)
SlashFrom(s, i) ==
    IF i > Len(s) THEN Len(s) + 1
    ELSE IF HasSlash(s[i]) THEN i
    ELSE SlashFrom(s, i + 1)

\* What [^/]+ matches from token i on: the whole tokens up to the next "/",
\* and the head of the token that holds it.
Group(s, i) ==
    LET j == SlashFrom(s, i)
    IN  SubSeq(s, i, j - 1) \o (IF j <= Len(s) THEN TokHead(s[j]) ELSE <<>>)

\* str.strip(): leading and trailing blanks removed.
RECURSIVE LStrip(_)
LStrip(s) == IF s # <<>> /\ s[1] = BLANK THEN LStrip(Tail(s)) ELSE s

RECURSIVE RStrip(_)
RStrip(s) == IF s # <<>> /\ s[Len(s)] = BLANK THEN RStrip(SubSeq(s, 1, Len(s) - 1)) ELSE s

Strip(s) == RStrip(LStrip(s))

\* The pattern https://github\.com/([^/]+)/([^/]+) matches with its first
\* character at token k: the prefix, a group, a "/" that is a token of its own
\* (after the "/" inside a URL prefix comes another "/", where the second
\* group cannot start), and a second group.
MatchAt(s, k) ==
    LET j == SlashFrom(s, k + 1)
    IN  /\ s[k] = HTTPS
        /\ Group(s, k + 1) # <<>>
        /\ j <= Len(s)
        /\ s[j] = SLASH
        /\ Group(s, j + 1) # <<>>

\* Faulty variant of Search: re.match, which tries the start position only.
SearchAnchored(s, k) == IF k <= Len(s) /\ MatchAt(s, k) THEN k ELSE 0

\* re.search: the leftmost position where the pattern matches, 0 if none.
RECURSIVE Search(_, _)
Search(s, k) ==
    IF k > Len(s) THEN 0
    ELSE IF MatchAt(s, k) THEN k
    ELSE Search(s, k + 1)

parse_github_url(s) ==
    LET k == Search(s, 1)
        j == SlashFrom(s, k + 1)
    IN  IF k # 0
        THEN <<Group(s, k + 1), Strip(Group(s, j + 1))>>
        ELSE <<None, None>>

\* ------------------------------------------------------------------ state
NoReq == [kind |-> "none", repo_url |-> None, search_query |-> None,
          repo_name |-> None, idea |-> None]
NoLoc == [owner |-> None, repo_name |-> None, readme_content |-> None,
          readme_summary |-> None, default_branch |-> None,
          file_structure |-> None, structure_analysis |-> None]
NoResp == [status |-> 0, body |-> <<>>]

Init ==
    /\ rows = <<>>
    /\ comments = {}
    /\ session = [w \in Workers |-> <<>>]
    /\ pc = [w \in Workers |-> "idle"]
    /\ req = [w \in Workers |-> NoReq]
    /\ loc = [w \in Workers |-> NoLoc]
    /\ calls = [w \in Workers |-> <<>>]
    /\ resp = [w \in Workers |-> NoResp]
    /\ url = <<>>
    /\ parsed = <<>>

\* ------------------------------------------------------- parse_github_url
InitParse ==
    /\ rows = <<>>
    /\ comments = {}
    /\ session = [w \in Workers |-> <<>>]
    /\ pc = [w \in Workers |-> "idle"]
    /\ req = [w \in Workers |-> NoReq]
    /\ loc = [w \in Workers |-> NoLoc]
    /\ calls = [w \in Workers |-> <<>>]
    /\ resp = [w \in Workers |-> NoResp]
    /\ url \in Strings(MaxLen)
    /\ parsed = <<>>

ParseUrl ==
    /\ parsed = <<>>
    /\ parsed' = parse_github_url(url)
    /\ UNCHANGED <<rows, comments, session, pc, req, loc, calls, resp, url>>

SpecParse == InitParse /\ [][ParseUrl]_vars

\* ------------------------------------------------------- handler plumbing
\* A worker takes a request when it handles none.
Ready(w) == pc[w] = "idle"

\* A handler starts: the request is recorded.
Begin(w, r) == req' = [req EXCEPT ![w] = r]

\* return jsonify(body), status: the handler's locals are gone.
Return(w, status, body) ==
    /\ pc' = [pc EXCEPT ![w] = "done"]
    /\ resp' = [resp EXCEPT ![w] = [status |-> status, body |-> body]]
    /\ loc' = [loc EXCEPT ![w] = NoLoc]

\* One more outbound call and its reply; ok: the call and the reading of its
\* reply raised nothing.
Called(w, fn, arg, reply, ok) ==
    calls' = [calls EXCEPT ![w] = Append(@, [fn |-> fn, arg |-> arg, reply |-> reply, ok |-> ok])]

\* The handler's `if error:` after each step.
Failed(ret) == ~Falsy(ret[2])

\* ------------------------------------------------------- external replies
\* GitHub: status 0 is a network failure or timeout, body None a missing key.
ReadmeReplies ==
    {[status |-> st, body |-> None] : st \in {0, 404}}
        \cup {[status |-> 200, body |-> b] : b \in {None, <<"">>, <<"Ug==">>, <<"/w==">>}}

RepoReplies ==
    {[status |-> st, body |-> None] : st \in {0, 404}}
        \cup {[status |-> 200, body |-> b] : b \in {None, <<"main">>}}

TreeEntries == {[path |-> <<"src">>, type |-> "tree"], [path |-> <<"app.py">>, type |-> "blob"]}

TreeReplies ==
    {[status |-> st, body |-> <<>>] : st \in {0, 404}}
        \cup {[status |-> 200, body |-> t] : t \in UNION {[1..k -> TreeEntries] : k \in 0..MaxTree}}

\* The model: it raises (ok FALSE) or returns Markdown text.
ModelReplies == {[ok |-> FALSE, text |-> <<>>], [ok |-> TRUE, text |-> <<"# md">>]}

\* base64.b64decode(content).decode('utf-8'): None when it raises.
B64DecodeUtf8(c) ==
    IF c = <<"">> THEN <<>>
    ELSE IF c = <<"Ug==">> THEN <<"R">>
    ELSE None

\* markdown(text)
markdown(t) == IF t = <<>> THEN <<>> ELSE <<"<h1>">> \o t \o <<"</h1>">>

\* ------------------------------------------------------- helper functions
\* Each returns the pair (value, error) the Python function returns.
get_github_readme(r) ==
    IF r.status = 200
    THEN IF r.body # None /\ B64DecodeUtf8(r.body) # None
         THEN <<B64DecodeUtf8(r.body), None>>
         ELSE <<None, <<"An unexpected error occurred: ", "decode">>>>
    ELSE IF r.status = 0
    THEN <<None, <<"An unexpected error occurred: ", "network">>>>
    ELSE <<None, <<"Could not fetch README. (HTTP Error: ", "status", ")">>>>

\* Faulty variant of EmptyInput: the guard is missing.
EmptyInputUnchecked(x) == FALSE

\* The guard of the two model steps that have one: `if not x: return None, msg`.
EmptyInput(x) == Falsy(x)

summarize_readme_with_gemini(m) ==
    IF m.ok THEN <<markdown(m.text), None>>
    ELSE <<None, <<"Error generating summary: ", "exception">>>>

\* The first half of get_github_file_structure: the default branch.
get_default_branch(r) ==
    IF r.status = 200 /\ r.body # None
    THEN <<r.body, None>>
    ELSE <<None, <<"Could not fetch file structure: ", "repo">>>>

\* [item['path'] for item in tree if item['type'] == 'blob']
RECURSIVE Blobs(_)
Blobs(t) ==
    IF t = <<>> THEN <<>>
    ELSE (IF t[1].type = "blob" THEN <<t[1].path>> ELSE <<>>) \o Blobs(Tail(t))

\* files[:n]
Take(s, n) == SubSeq(s, 1, IF Len(s) < n THEN Len(s) ELSE n)

\* "\n".join(files)
RECURSIVE Join(_)
Join(files) ==
    IF files = <<>> THEN <<>>
    ELSE IF Len(files) = 1 THEN files[1]
    ELSE files[1] \o <<"\n">> \o Join(Tail(files))

\* The second half of get_github_file_structure: the tree.
get_tree(r) ==
    IF r.status = 200
    THEN <<Join(Take(Blobs(r.body), PathCap)), None>>
    ELSE <<None, <<"Could not fetch file structure: ", "tree">>>>

analyze_structure_with_gemini(m) ==
    IF m.ok THEN <<markdown(m.text), None>>
    ELSE <<None, <<"Error generating analysis: ", "exception">>>>

get_setup_guide_with_gemini(m) ==
    IF m.ok THEN <<markdown(m.text), None>>
    ELSE <<None, <<"Error generating setup guide: ", "exception">>>>

\* ------------------------------------------------------- POST /api/analyze
AnalyzeUrls ==
    {None, <<>>, <<HTTPS, "a", SLASH, "b">>, <<HTTPS, "a", SLASH, "b", SLASH>>,
     <<HTTP, "a", SLASH, "b">>, <<HTTPS, "a", SLASH, BLANK>>, <<"a", "b">>}

\* Faulty variant of InvalidRef: the repository name is not looked at.
InvalidRefOwnerOnly(owner, repo_name) == Falsy(owner)

\* `if not owner or not repo_name:`
InvalidRef(owner, repo_name) == Falsy(owner) \/ Falsy(repo_name)

\* The route up to its first outbound call: the two 400 checks.
AnalyzeBegin(w) ==
    /\ Ready(w)
    /\ \E u \in AnalyzeUrls :
        /\ Begin(w, [NoReq EXCEPT !.kind = "analyze", !.repo_url = u])
        /\ IF Falsy(u)
           THEN Return(w, 400, [error |-> <<"repo_url is required">>])
           ELSE LET p == parse_github_url(u)
                IN  IF InvalidRef(p[1], p[2])
                    THEN Return(w, 400, [error |-> <<"Invalid GitHub URL">>])
                    ELSE /\ pc' = [pc EXCEPT ![w] = "readme"]
                         /\ loc' = [loc EXCEPT ![w] = [NoLoc EXCEPT !.owner = p[1], !.repo_name = p[2]]]
                         /\ UNCHANGED resp
    /\ UNCHANGED <<rows, comments, session, calls, url, parsed>>

\* Faulty variant of Continue: the error is not looked at.
ContinueNoAbort(w, ret, next, l) ==
    /\ pc' = [pc EXCEPT ![w] = next]
    /\ loc' = [loc EXCEPT ![w] = l]
    /\ UNCHANGED resp

\* What the route does with a step's (value, error): 500, or on to the next step.
Continue(w, ret, next, l) ==
    IF Failed(ret)
    THEN Return(w, 500, [error |-> ret[2]])
    ELSE /\ pc' = [pc EXCEPT ![w] = next]
         /\ loc' = [loc EXCEPT ![w] = l]
         /\ UNCHANGED resp

GetReadme(w) ==
    /\ pc[w] = "readme"
    /\ \E r \in ReadmeReplies :
        LET ret == get_github_readme(r)
        IN  /\ Called(w, "github:readme", <<loc[w].owner, loc[w].repo_name>>, r, ~Failed(ret))
            /\ Continue(w, ret, "summarize", [loc[w] EXCEPT !.readme_content = ret[1]])
    /\ UNCHANGED <<rows, comments, session, req, url, parsed>>

Summarize(w) ==
    /\ pc[w] = "summarize"
    /\ IF EmptyInput(loc[w].readme_content)
       THEN /\ Return(w, 500, [error |-> <<"README content is empty.">>])
            /\ UNCHANGED calls
       ELSE \E m \in ModelReplies :
            LET ret == summarize_readme_with_gemini(m)
            IN  /\ Called(w, "model:summary", <<loc[w].readme_content>>, m, ~Failed(ret))
                /\ Continue(w, ret, "repo_info", [loc[w] EXCEPT !.readme_summary = ret[1]])
    /\ UNCHANGED <<rows, comments, session, req, url, parsed>>

GetRepoInfo(w) ==
    /\ pc[w] = "repo_info"
    /\ \E r \in RepoReplies :
        LET ret == get_default_branch(r)
        IN  /\ Called(w, "github:repo", <<loc[w].owner, loc[w].repo_name>>, r, ~Failed(ret))
            /\ Continue(w, ret, "tree", [loc[w] EXCEPT !.default_branch = ret[1]])
    /\ UNCHANGED <<rows, comments, session, req, url, parsed>>

GetTree(w) ==
    /\ pc[w] = "tree"
    /\ \E r \in TreeReplies :
        LET ret == get_tree(r)
        IN  /\ Called(w, "github:tree", <<loc[w].owner, loc[w].repo_name, loc[w].default_branch>>, r, ~Failed(ret))
            /\ Continue(w, ret, "structure", [loc[w] EXCEPT !.file_structure = ret[1]])
    /\ UNCHANGED <<rows, comments, session, req, url, parsed>>

AnalyzeStructure(w) ==
    /\ pc[w] = "structure"
    /\ IF EmptyInput(loc[w].file_structure)
       THEN /\ Return(w, 500, [error |-> <<"File structure is empty.">>])
            /\ UNCHANGED calls
       ELSE \E m \in ModelReplies :
            LET ret == analyze_structure_with_gemini(m)
            IN  /\ Called(w, "model:structure", <<loc[w].file_structure>>, m, ~Failed(ret))
                /\ Continue(w, ret, "setup", [loc[w] EXCEPT !.structure_analysis = ret[1]])
    /\ UNCHANGED <<rows, comments, session, req, url, parsed>>

\* The last step, and the 200 with the three documents.
SetupGuide(w) ==
    /\ pc[w] = "setup"
    /\ \E m \in ModelReplies :
        LET ret == get_setup_guide_with_gemini(m)
        IN  /\ Called(w, "model:setup", <<loc[w].readme_content, loc[w].file_structure>>, m, ~Failed(ret))
            /\ IF Failed(ret)
               THEN Return(w, 500, [error |-> ret[2]])
               ELSE Return(w, 200, [readme_summary |-> loc[w].readme_summary,
                                    structure_analysis |-> loc[w].structure_analysis,
                                    setup_guide |-> ret[1]])
    /\ UNCHANGED <<rows, comments, session, req, url, parsed>>

Analyze(w) ==
    \/ AnalyzeBegin(w)
    \/ GetReadme(w)
    \/ Summarize(w)
    \/ GetRepoInfo(w)
    \/ GetTree(w)
    \/ AnalyzeStructure(w)
    \/ SetupGuide(w)

\* ------------------------------------------------------- GET /api/trending
SearchItems ==
    {[full_name |-> <<"o/r1">>, html_url |-> <<"u1">>, stargazers_count |-> 1,
      description |-> None, forks_count |-> 0],
     [full_name |-> <<"o/r2">>, html_url |-> <<"u2">>, stargazers_count |-> 2,
      description |-> <<"d">>, forks_count |-> 3]}

\* The search replies with at most n items; has_items FALSE: a reply without
\* the 'items' key.
SearchReplies(n) ==
    {[status |-> st, has_items |-> FALSE, items |-> <<>>] : st \in {0, 403, 200}}
        \cup {[status |-> 200, has_items |-> TRUE, items |-> b] :
                b \in UNION {[1..k -> SearchItems] : k \in 0..n}}

\* '+'.join(q): the search term if there is one, and the creation-date bound.
Query(search_query) ==
    (IF Falsy(search_query) THEN <<>> ELSE search_query \o <<"+">>)
        \o <<"created:>", "utcnow-730d">>

\* One entry of the result list.
Project(r) ==
    [name |-> r.full_name, url |-> r.html_url, stars |-> r.stargazers_count,
     description |-> IF Falsy(r.description) THEN <<>> ELSE r.description,
     forks |-> r.forks_count]

\* Faulty variant of TrendingResult: the entries come out in reverse.
TrendingResultReversed(items) == [i \in 1..Len(items) |-> Project(items[Len(items) + 1 - i])]

\* result = [{...} for r in items]
TrendingResult(items) == [i \in 1..Len(items) |-> Project(items[i])]

\* The route up to its outbound call: the query string is read.
TrendingBegin(w) ==
    /\ Ready(w)
    /\ \E q \in {None, <<>>, <<"ml">>} :
        Begin(w, [NoReq EXCEPT !.kind = "trending", !.search_query = q])
    /\ pc' = [pc EXCEPT ![w] = "search"]
    /\ UNCHANGED <<rows, comments, session, loc, calls, resp, url, parsed>>

\* The search, with a reply of at most n items, and the response.
SearchRepos(w, n) ==
    /\ pc[w] = "search"
    /\ \E r \in SearchReplies(n) :
        /\ Called(w, "github:search", Query(req[w].search_query), r, r.status = 200)
        /\ IF r.status = 200
           THEN Return(w, 200, TrendingResult(IF r.has_items THEN r.items ELSE <<>>))
           ELSE Return(w, 500, [error |-> <<"Error searching repos: ", "exception">>])
    /\ UNCHANGED <<rows, comments, session, req, url, parsed>>

trending_repos_route(w, n) ==
    \/ TrendingBegin(w)
    \/ SearchRepos(w, n)

\* ------------------------------------------------------- GET /api/posts
\* datetime.utcnow(), in seconds.
Times(n) == {30 * k : k \in 0..n}

\* strftime('%Y-%m-%d %H:%M'): the minute.
strftime(t) == t \div 60

\* The orders of the rows of t with index in S, latest first: a latest row, then
\* the others; the store orders rows of equal timestamp as it likes.
RECURSIVE Orders(_, _)
Orders(t, S) ==
    IF S = {} THEN {<<>>}
    ELSE UNION {{<<i>> \o o : o \in Orders(t, S \ {i})} :
                  i \in {i \in S : \A j \in S : t[i].timestamp >= t[j].timestamp}}

\* Faulty variant of OrderByTimestampDesc: no order_by, the rows as inserted.
InsertionOrder(t) == {[i \in 1..Len(t) |-> i]}

\* Post.query.order_by(Post.timestamp.desc()).all(), as indices of the rows.
OrderByTimestampDesc(t) == Orders(t, 1..Len(t))

\* One entry of the list; len(post.comments) counts the post's comments.
PostEntry(post) ==
    [id |-> post.id, repo_name |-> post.repo_name, idea |-> post.idea,
     timestamp |-> strftime(post.timestamp),
     comments_count |-> Cardinality({c \in comments : c.post_id = post.id})]

get_posts(w) ==
    /\ Ready(w)
    /\ Begin(w, [NoReq EXCEPT !.kind = "list"])
    /\ \/ \E p \in OrderByTimestampDesc(rows) :
            Return(w, 200, [i \in 1..Len(rows) |-> PostEntry(rows[p[i]])])
       \/ Return(w, 500, [error |-> <<"Failed to fetch posts">>])
    /\ UNCHANGED <<rows, comments, session, calls, url, parsed>>

\* ------------------------------------------------------- POST /api/posts
PostNames == {None, <<>>, <<"repoA">>}
PostIdeas == {None, <<>>, <<"ideaX">>}

\* Faulty variants of ValidPost: `or` for `and`, and the idea not looked at.
ValidPostEither(repo_name, idea) == ~Falsy(repo_name) \/ ~Falsy(idea)

ValidPostNameOnly(repo_name, idea) == ~Falsy(repo_name)

\* `if repo_name and idea:`
ValidPost(repo_name, idea) == ~Falsy(repo_name) /\ ~Falsy(idea)

\* The route up to the commit: the 400, or Post(...) and db.session.add.
AddPostBegin(w, cap) ==
    /\ Ready(w)
    /\ \E rn \in PostNames, idea \in PostIdeas :
        /\ Begin(w, [NoReq EXCEPT !.kind = "post", !.repo_name = rn, !.idea = idea])
        /\ IF ValidPost(rn, idea)
           THEN /\ Len(rows) + Cardinality({v \in Workers : session[v] # <<>>}) < cap
                /\ session' = [session EXCEPT ![w] = Append(@, [repo_name |-> rn, idea |-> idea])]
                /\ pc' = [pc EXCEPT ![w] = "commit"]
                /\ UNCHANGED <<loc, resp>>
           ELSE /\ Return(w, 400, [success |-> FALSE,
                                   message |-> <<"Missing repository name or idea.">>])
                /\ UNCHANGED session
    /\ UNCHANGED <<rows, comments, calls, url, parsed>>

\* Faulty variant of Flush: the two columns are swapped.
FlushSwapped(pending, n, t) ==
    [i \in 1..Len(pending) |->
        [id |-> n + i, repo_name |-> pending[i].idea, idea |-> pending[i].repo_name,
         timestamp |-> t]]

\* The INSERTs of a flush: ids count on from the table's, the timestamp
\* defaults to utcnow.
Flush(pending, n, t) ==
    [i \in 1..Len(pending) |->
        [id |-> n + i, repo_name |-> pending[i].repo_name, idea |-> pending[i].idea,
         timestamp |-> t]]

\* db.session.commit() succeeds, and the 201.
CommitOk(w, ticks) ==
    /\ pc[w] = "commit"
    /\ \E t \in Times(ticks) : rows' = rows \o Flush(session[w], Len(rows), t)
    /\ session' = [session EXCEPT ![w] = <<>>]
    /\ Return(w, 201, [success |-> TRUE, message |-> <<"Idea posted successfully!">>])
    /\ UNCHANGED <<comments, req, calls, url, parsed>>

\* db.session.commit() raises: nothing is written, the except clause is next.
CommitFail(w) ==
    /\ pc[w] = "commit"
    /\ pc' = [pc EXCEPT ![w] = "rollback"]
    /\ UNCHANGED <<rows, comments, session, req, loc, calls, resp, url, parsed>>

\* Faulty variant of Rollback: the session is not rolled back.
RollbackForgotten(w) ==
    /\ pc[w] = "rollback"
    /\ Return(w, 500, [success |-> FALSE, message |-> <<"Database error.">>])
    /\ UNCHANGED <<rows, comments, session, req, calls, url, parsed>>

\* except: db.session.rollback(), and the 500.
Rollback(w) ==
    /\ pc[w] = "rollback"
    /\ session' = [session EXCEPT ![w] = <<>>]
    /\ Return(w, 500, [success |-> FALSE, message |-> <<"Database error.">>])
    /\ UNCHANGED <<rows, comments, req, calls, url, parsed>>

add_post(w, cap, ticks) ==
    \/ AddPostBegin(w, cap)
    \/ CommitOk(w, ticks)
    \/ CommitFail(w)
    \/ Rollback(w)

\* ------------------------------------------------------- workers
\* The response is out: the worker is free for the next request.
Finish(w) ==
    /\ pc[w] = "done"
    /\ pc' = [pc EXCEPT ![w] = "idle"]
    /\ req' = [req EXCEPT ![w] = NoReq]
    /\ calls' = [calls EXCEPT ![w] = <<>>]
    /\ resp' = [resp EXCEPT ![w] = NoResp]
    /\ UNCHANGED <<rows, comments, session, loc, url, parsed>>

\* ------------------------------------------------------- specifications
\* All four routes, on every worker.
Next ==
    \E w \in Workers :
        \/ Analyze(w)
        \/ trending_repos_route(w, FullItems)
        \/ get_posts(w)
        \/ add_post(w, FullPosts, FullTick)
        \/ Finish(w)

Spec == Init /\ [][Next]_vars

\* The analysis pipeline.
NextAnalyze == \E w \in Workers : Analyze(w) \/ Finish(w)

SpecAnalyze == Init /\ [][NextAnalyze]_vars

\* The idea board.
NextBoard == \E w \in Workers : get_posts(w) \/ add_post(w, MaxPosts, MaxTick) \/ Finish(w)

SpecBoard == Init /\ [][NextBoard]_vars

\* The trending route on one worker, with replies longer than a page.
NextTrending == trending_repos_route("w1", MaxItems) \/ Finish("w1")

SpecTrending == Init /\ [][NextTrending]_vars

\* ======================================================= properties
Done(w, kind) == pc[w] = "done" /\ req[w].kind = kind

Analyzing(w) == req[w].kind = "analyze"

PipelineOrder ==
    <<"github:readme", "model:summary", "github:repo", "github:tree",
      "model:structure", "model:setup">>

\* C1: the calls of an analyze request are attempted in the order README fetch,
\* README summary, repository fetch, tree fetch, structure analysis, setup
\* guide; a call that fails is the last one of the request and the response is
\* a 500 that carries an error message and nothing else; a 200 carries the
\* three documents and comes only after all six calls succeeded.
C1_AllOrNothing ==
    \A w \in Workers :
        Analyzing(w) =>
            LET c == calls[w]
                n == Len(calls[w])
            IN  /\ n <= Len(PipelineOrder)
                /\ \A i \in 1..n : c[i].fn = PipelineOrder[i]
                /\ \A i \in 1..n :
                      ~c[i].ok => i = n /\ pc[w] = "done" /\ resp[w].status = 500
                /\ pc[w] = "done" => resp[w].status \in {200, 400, 500}
                /\ pc[w] = "done" /\ resp[w].status = 500 =>
                      DOMAIN resp[w].body = {"error"}
                /\ pc[w] = "done" /\ resp[w].status = 200 =>
                      /\ n = Len(PipelineOrder)
                      /\ \A i \in 1..n : c[i].ok
                      /\ DOMAIN resp[w].body =
                            {"readme_summary", "structure_analysis", "setup_guide"}

\* C1, its case: the tree fetch, the fourth call, failed and the request ended
\* there with a 500.
C1_Witness ==
    \E w \in Workers :
        /\ Done(w, "analyze")
        /\ Len(calls[w]) = 4
        /\ ~calls[w][4].ok
        /\ resp[w].status = 500

\* The repo_url is missing, empty, or parses to no (owner, repo).
BadUrl(u) ==
    Falsy(u) \/ Falsy(parse_github_url(u)[1]) \/ Falsy(parse_github_url(u)[2])

ModelFns == {"model:summary", "model:structure", "model:setup"}

\* C10: no model call of an analyze request is given an empty input; a README
\* that decodes to empty text ends the request with a 500 right after the
\* README fetch, an empty file structure ends it with a 500 right after the
\* tree fetch, and the setup-guide step is reached only with a README and a
\* file structure that are not empty.
C10_NoEmptyModelInput ==
    \A w \in Workers :
        Analyzing(w) =>
            LET c == calls[w]
                n == Len(calls[w])
            IN  /\ \A i \in 1..n :
                      c[i].fn \in ModelFns =>
                          \A k \in 1..Len(c[i].arg) : ~Falsy(c[i].arg[k])
                /\ pc[w] = "setup" =>
                      ~Falsy(loc[w].readme_content) /\ ~Falsy(loc[w].file_structure)
                /\ n >= 1 /\ c[1].ok /\ c[1].reply.body = <<"">> =>
                      /\ n = 1
                      /\ pc[w] = "summarize" \/ (pc[w] = "done" /\ resp[w].status = 500)
                /\ n >= 4 /\ c[4].ok /\ Blobs(c[4].reply.body) = <<>> =>
                      /\ n = 4
                      /\ pc[w] = "structure" \/ (pc[w] = "done" /\ resp[w].status = 500)

\* C10, its case: the tree had no blob, and the request ended with a 500 after
\* four calls that all succeeded.
C10_Witness ==
    \E w \in Workers :
        /\ Done(w, "analyze")
        /\ Len(calls[w]) = 4
        /\ calls[w][4].ok
        /\ Blobs(calls[w][4].reply.body) = <<>>
        /\ resp[w].status = 500

\* A createPost body with repo_name or idea empty or missing.
InvalidFields(r) == Falsy(r.repo_name) \/ Falsy(r.idea)

\* C2: a createPost request whose repo_name or idea is empty or missing is
\* answered 400 in the step that takes it, and that step leaves the tables and
\* every session as they were.
C2_ValidationLeavesStore ==
    [][\A w \in Workers :
          (pc[w] = "idle" /\ req'[w].kind = "post" /\ InvalidFields(req'[w])) =>
              /\ pc'[w] = "done"
              /\ resp'[w].status = 400
              /\ resp'[w].body.success = FALSE
              /\ rows' = rows
              /\ comments' = comments
              /\ session' = session]_vars

\* C2, its case: with a post stored, a request without a usable field was
\* answered 400.
C2_Witness ==
    \E w \in Workers :
        /\ Done(w, "post")
        /\ InvalidFields(req[w])
        /\ resp[w].status = 400
        /\ Len(rows) >= 1

\* C3: when the commit of a createPost request fails, no step of the request
\* changes the tables, its response is a 500 with success false, and by then
\* the worker's session holds no row; a worker between requests never holds a
\* pending row.
C3_RollbackOnFailure ==
    [][\A w \in Workers :
          /\ (pc[w] = "commit" /\ pc'[w] = "rollback") =>
                rows' = rows /\ comments' = comments
          /\ (pc[w] = "rollback" /\ pc'[w] # "rollback") =>
                /\ pc'[w] = "done"
                /\ resp'[w].status = 500
                /\ resp'[w].body.success = FALSE
                /\ rows' = rows
                /\ comments' = comments
                /\ session'[w] = <<>>
          /\ pc[w] \in {"idle", "done"} => session[w] = <<>>]_vars

\* C3, its case: with a post stored, a createPost request ended with a 500 and
\* an empty session.
C3_Witness ==
    \E w \in Workers :
        /\ Done(w, "post")
        /\ resp[w].status = 500
        /\ session[w] = <<>>
        /\ Len(rows) >= 1

\* The step in which worker w answers a listPosts request with a 200.
ListStep(w) ==
    pc[w] = "idle" /\ pc'[w] = "done" /\ req'[w].kind = "list" /\ resp'[w].status = 200

\* The stored timestamp of the post with this id.
TimestampOf(id) == (CHOOSE r \in {rows[k] : k \in 1..Len(rows)} : r.id = id).timestamp

\* C4: a listPosts response holds every stored post exactly once, and a post
\* listed before another was not created earlier than it.
C4_ListedLatestFirst ==
    [][\A w \in Workers :
          ListStep(w) =>
              LET b == resp'[w].body
              IN  /\ Len(b) = Len(rows)
                  /\ \A k \in 1..Len(rows) :
                        Cardinality({i \in 1..Len(b) : b[i].id = rows[k].id}) = 1
                  /\ \A i, j \in 1..Len(b) :
                        i < j =>
                            /\ TimestampOf(b[i].id) >= TimestampOf(b[j].id)
                            /\ b[i].timestamp >= b[j].timestamp]_vars

\* C4, its case: three posts created at t1 < t2 < t3 were listed as t3, t2, t1.
C4_Witness ==
    \E w \in Workers :
        /\ Done(w, "list")
        /\ resp[w].status = 200
        /\ Len(rows) = 3
        /\ rows[1].timestamp < rows[2].timestamp
        /\ rows[2].timestamp < rows[3].timestamp
        /\ Len(resp[w].body) = 3
        /\ resp[w].body[1].id = rows[3].id
        /\ resp[w].body[2].id = rows[2].id
        /\ resp[w].body[3].id = rows[1].id

\* C5: a step changes the post table only by a createPost request's successful
\* commit, which is answered 201 and appends exactly one row, with the
\* request's repo_name and idea, to the rows there were; and listPosts on a
\* table of one row returns one entry with that row's repo_name and idea and
\* comments_count 0.
C5_CreateThenList ==
    [][/\ rows' # rows => \E w \in Workers : pc[w] = "commit" /\ pc'[w] = "done"
       /\ \A w \in Workers :
             /\ (pc[w] = "commit" /\ pc'[w] = "done") =>
                   /\ resp'[w].status = 201
                   /\ Len(rows') = Len(rows) + 1
                   /\ SubSeq(rows', 1, Len(rows)) = rows
                   /\ rows'[Len(rows')].repo_name = req[w].repo_name
                   /\ rows'[Len(rows')].idea = req[w].idea
                   /\ comments' = comments
             /\ (ListStep(w) /\ Len(rows) = 1) =>
                   /\ Len(resp'[w].body) = 1
                   /\ resp'[w].body[1].repo_name = rows[1].repo_name
                   /\ resp'[w].body[1].idea = rows[1].idea
                   /\ resp'[w].body[1].comments_count = 0]_vars

\* C5, its case: the one post created as (repoA, ideaX) was listed as the only
\* entry, with no comment.
C5_Witness ==
    \E w \in Workers :
        /\ Done(w, "list")
        /\ resp[w].status = 200
        /\ Len(rows) = 1
        /\ Len(resp[w].body) = 1
        /\ resp[w].body[1].repo_name = <<"repoA">>
        /\ resp[w].body[1].idea = <<"ideaX">>
        /\ resp[w].body[1].comments_count = 0

\* C8: every stored post has a repo_name and an idea that are not empty.
C8_PostsNonEmpty ==
    \A i \in 1..Len(rows) : ~Falsy(rows[i].repo_name) /\ ~Falsy(rows[i].idea)

\* C8, its case: two posts are stored while one worker is inside an analyze
\* request and the other inside a trending request.
C8_Witness ==
    /\ Len(rows) >= 2
    /\ \E v, w \in Workers : pc[v] = "tree" /\ pc[w] = "search"

SortedByStars(b) == \A i, j \in 1..Len(b) : i < j => b[i].stars >= b[j].stars

\* The items of the search reply a trending request got.
ItemsOf(w) ==
    IF calls[w][1].reply.has_items THEN calls[w][1].reply.items ELSE <<>>

\* C9 as claimed: whatever the search reply holds, a successful trending
\* response has at most 12 entries, sorted by stars descending.
C9_Original ==
    \A w \in Workers :
        Done(w, "trending") /\ resp[w].status = 200 =>
            Len(resp[w].body) <= PerPage /\ SortedByStars(resp[w].body)

\* C9 amended: a successful trending response holds the items of the search
\* reply, one entry per item and in the reply's order; it has at most 12
\* entries sorted by stars descending whenever the reply has.
C9_Amended ==
    \A w \in Workers :
        Done(w, "trending") /\ resp[w].status = 200 =>
            LET b == resp[w].body
                items == ItemsOf(w)
            IN  /\ Len(b) = Len(items)
                /\ \A i \in 1..Len(items) :
                      /\ b[i].name = items[i].full_name
                      /\ b[i].stars = items[i].stargazers_count
                /\ (/\ Len(items) <= PerPage
                    /\ \A i, j \in 1..Len(items) :
                          i < j => items[i].stargazers_count >= items[j].stargazers_count)
                      => Len(b) <= PerPage /\ SortedByStars(b)

\* C9, its case: a full page of 12 items, sorted and not all alike, was
\* returned as it came.
C9_Witness ==
    \E w \in Workers :
        /\ Done(w, "trending")
        /\ resp[w].status = 200
        /\ Len(resp[w].body) = PerPage
        /\ SortedByStars(resp[w].body)
        /\ resp[w].body[1].stars > resp[w].body[PerPage].stars

NameTok == {"a", "b"}

\* The tokens lo..hi of s are at least one and all in S.
AllIn(s, lo, hi, S) == lo <= hi /\ \A x \in lo..hi : s[x] \in S

\* Token k of s is the last, or a "/" follows it.
EndsAt(s, k) == k = Len(s) \/ s[k + 1] = SLASH

\* C6 as claimed: a text whose first github.com/ prefix, with either scheme,
\* is followed by owner/repo parses to (owner, repo), what follows the repo
\* dropped; a text without the prefix parses to (None, None).
C6_Original ==
    parsed # <<>> =>
        /\ \A i, j, k \in 1..Len(url) :
              (/\ url[i] \in {HTTPS, HTTP}
               /\ \A x \in 1..(i - 1) : url[x] \notin {HTTPS, HTTP}
               /\ AllIn(url, i + 1, j - 1, NameTok)
               /\ url[j] = SLASH
               /\ AllIn(url, j + 1, k, NameTok)
               /\ EndsAt(url, k))
                  => parsed = <<SubSeq(url, i + 1, j - 1), SubSeq(url, j + 1, k)>>
        /\ (\A x \in 1..Len(url) : url[x] \notin {HTTPS, HTTP}) => parsed = <<None, None>>

\* C6 amended: a text whose first https://github.com/ is followed by
\* owner/repo parses to (owner, repo), what follows the repo dropped; a text
\* without https://github.com/ parses to (None, None), one with
\* http://github.com/ only included; and a repo never starts or ends with a blank.
C6_Amended ==
    parsed # <<>> =>
        /\ \A i, j, k \in 1..Len(url) :
              (/\ url[i] = HTTPS
               /\ \A x \in 1..(i - 1) : url[x] # HTTPS
               /\ AllIn(url, i + 1, j - 1, NameTok \cup {BLANK})
               /\ url[j] = SLASH
               /\ AllIn(url, j + 1, k, NameTok)
               /\ EndsAt(url, k))
                  => parsed = <<SubSeq(url, i + 1, j - 1), SubSeq(url, j + 1, k)>>
        /\ (\A x \in 1..Len(url) : url[x] # HTTPS) => parsed = <<None, None>>
        /\ parsed[2] # <<>> => parsed[2][1] # BLANK /\ parsed[2][Len(parsed[2])] # BLANK

\* C6, its case: https://github.com/a/b/ parsed to (a, b).
C6_Witness ==
    /\ url = <<HTTPS, "a", SLASH, "b", SLASH>>
    /\ parsed = <<<<"a">>, <<"b">>>>
====
